---- MODULE Spec2Model ----
(***************************************************************************)
(* A model of zet's `calculate` (src/src/operations.rs): the dispatcher,   *)
(* the bookkeeping shapes, the four operation kernels and the ordered line *)
(* set they drive.  Operands are byte buffers; lines are byte sequences.   *)
(*                                                                         *)
(* `u32` is modelled as the integers 0..U32Max: TLC's integers stop short  *)
(* of 2^32 - 1, so the width is scaled down and every place where the code *)
(* says u32::MAX says U32Max here.                                         *)
(***************************************************************************)
EXTENDS Integers, Sequences, FiniteSets, TLC

VARIABLES operation, log_type, first_operand, rest, item, set, out, pc

vars == <<operation, log_type, first_operand, rest, item, set, out, pc>>

(***************************************************************************)
(* Bounds of the model.                                                    *)
(***************************************************************************)
\* u32::MAX, scaled down
U32Max == 7
\* total number of input bytes of a run with arbitrary operands
MaxBytes == 6
\* number of later operands of a run with arbitrary operands
MaxRest == 2

\* b'\n'
NL == 10
\* the bytes operands are made of: b'\n' and b'x'
Bytes == {NL, 120}

Buffers == UNION {[1..n -> Bytes] : n \in 0..MaxBytes}

\* operands of the long runs: the empty file and the file "x\n"
ManyBuffers == {<<>>, <<120, NL>>}
\* number of later operands of a long run: one more than next_file accepts
MaxManyRest == U32Max + 1

OpName == {"Union", "Diff", "Intersect", "Single", "Multiple", "SingleByFile", "MultipleByFile"}
LogType == {"Lines", "Files", "None"}

Range(s) == {s[i] : i \in DOMAIN s}

(***************************************************************************)
(* Line splitting.                                                         *)
(***************************************************************************)
\* lines_from that leaves the newline out of the line
RECURSIVE lines_from_stripped(_, _)
lines_from_stripped(text, begin) ==
    IF begin > Len(text) THEN <<>>
    ELSE LET ends == {e \in begin..Len(text) : text[e] = NL}
         IN  IF ends = {} THEN <<SubSeq(text, begin, Len(text))>>
             ELSE LET end == CHOOSE e \in ends : \A f \in ends : e <= f
                  IN  <<SubSeq(text, begin, end - 1)>> \o lines_from_stripped(text, end + 1)

\* The lines of text[begin..], begin counted from 1: each runs up to and
\* including the next newline; what follows the last newline, if not empty,
\* is a last line without a newline.
RECURSIVE lines_from(_, _)
lines_from(text, begin) ==
    IF begin > Len(text) THEN <<>>
    ELSE LET ends == {e \in begin..Len(text) : text[e] = NL}
         IN  IF ends = {} THEN <<SubSeq(text, begin, Len(text))>>
             ELSE LET end == CHOOSE e \in ends : \A f \in ends : e <= f
                  IN  <<SubSeq(text, begin, end)>> \o lines_from(text, end + 1)

insert_all_lines(text) == lines_from(text, 1)

\* The lines a later operand hands to its per-line callback, in order.
for_byte_line(operand) == insert_all_lines(operand)

(***************************************************************************)
(* Bookkeeping shapes.  A type is a record with a `kind`; a value of the   *)
(* type carries the type's fields as well.                                 *)
(***************************************************************************)
NoopT == [kind |-> "Noop"]
LineCountT == [kind |-> "LineCount"]
LastFileSeenT == [kind |-> "LastFileSeen"]
FileCountT == [kind |-> "FileCount"]
UnloggedT(R) == [kind |-> "Unlogged", inner |-> R]
LoggedT(R) == [kind |-> "Logged", inner |-> R]
DualT(R, B) == [kind |-> "Dual", retention |-> R, log |-> B]

Noop_new == [kind |-> "Noop"]
\* LineCount::new that starts the count at 0
LineCount_new_zero == [kind |-> "LineCount", n |-> 0]
\* FileCount::new that starts files_seen at 0
FileCount_new_unseen == [kind |-> "FileCount", file_number |-> 0, files_seen |-> 0]

LineCount_new == [kind |-> "LineCount", n |-> 1]
LastFileSeen_new == [kind |-> "LastFileSeen", n |-> 0]
FileCount_new == [kind |-> "FileCount", file_number |-> 0, files_seen |-> 1]

RECURSIVE new(_)
new(T) ==
    CASE T.kind = "Noop" -> Noop_new
      [] T.kind = "LineCount" -> LineCount_new
      [] T.kind = "LastFileSeen" -> LastFileSeen_new
      [] T.kind = "FileCount" -> FileCount_new
      [] T.kind \in {"Unlogged", "Logged"} -> [kind |-> T.kind, inner |-> new(T.inner)]
      [] T.kind = "Dual" -> [kind |-> "Dual", retention |-> new(T.retention), log |-> new(T.log)]

\* LastFileSeen::next_file with a wrapping add
LastFileSeen_next_file_wrapping(self) ==
    [ok |-> TRUE, item |-> [self EXCEPT !.n = (self.n + 1) % (U32Max + 1)]]

\* checked_add(1): the value, or failure at u32::MAX
LastFileSeen_next_file(self) ==
    IF self.n < U32Max THEN [ok |-> TRUE, item |-> [self EXCEPT !.n = self.n + 1]]
    ELSE [ok |-> FALSE, item |-> self]

FileCount_next_file(self) ==
    IF self.file_number < U32Max
    THEN [ok |-> TRUE, item |-> [self EXCEPT !.file_number = self.file_number + 1]]
    ELSE [ok |-> FALSE, item |-> self]

Dual_next_file(self, r, l) ==
    IF ~r.ok THEN [ok |-> FALSE, item |-> self]
    ELSE [ok |-> l.ok, item |-> [self EXCEPT !.retention = r.item, !.log = l.item]]

\* next_file: [ok |-> whether it returned Ok, item |-> self afterwards]
RECURSIVE next_file(_)
next_file(self) ==
    CASE self.kind \in {"Noop", "LineCount"} -> [ok |-> TRUE, item |-> self]
      [] self.kind = "LastFileSeen" -> LastFileSeen_next_file(self)
      [] self.kind = "FileCount" -> FileCount_next_file(self)
      [] self.kind \in {"Unlogged", "Logged"} ->
            LET r == next_file(self.inner)
            IN  [ok |-> r.ok, item |-> [self EXCEPT !.inner = r.item]]
      [] self.kind = "Dual" ->
            Dual_next_file(self, next_file(self.retention), next_file(self.log))

\* LineCount::update_with with a wrapping add
LineCount_update_with_wrapping(self, other) ==
    [self EXCEPT !.n = (self.n + 1) % (U32Max + 1)]

\* saturating_add(1)
LineCount_update_with(self, other) ==
    [self EXCEPT !.n = IF self.n < U32Max THEN self.n + 1 ELSE U32Max]

LastFileSeen_update_with(self, other) == [self EXCEPT !.n = other.n]

\* `files_seen += 1` is an unchecked add: it wraps in a build without overflow
\* checks (the value modelled here) and panics in a build with them (see
\* update_overflows).
FileCount_update_with(self, other) ==
    IF other.file_number # self.file_number
    THEN [self EXCEPT !.files_seen = (self.files_seen + 1) % (U32Max + 1),
                      !.file_number = other.file_number]
    ELSE self

\* Dual::update_with that updates the retention half only
Dual_update_with_retention_only(self, r, l) == [self EXCEPT !.retention = r]

Dual_update_with(self, r, l) == [self EXCEPT !.retention = r, !.log = l]

RECURSIVE update_with(_, _)
update_with(self, other) ==
    CASE self.kind = "Noop" -> self
      [] self.kind = "LineCount" -> LineCount_update_with(self, other)
      [] self.kind = "LastFileSeen" -> LastFileSeen_update_with(self, other)
      [] self.kind = "FileCount" -> FileCount_update_with(self, other)
      [] self.kind \in {"Unlogged", "Logged"} ->
            [self EXCEPT !.inner = update_with(self.inner, other.inner)]
      [] self.kind = "Dual" ->
            Dual_update_with(self, update_with(self.retention, other.retention),
                                   update_with(self.log, other.log))

\* Whether self.update_with(other) overflows `files_seen += 1`.
RECURSIVE update_overflows(_, _)
update_overflows(self, other) ==
    CASE self.kind \in {"Noop", "LineCount", "LastFileSeen"} -> FALSE
      [] self.kind = "FileCount" ->
            other.file_number # self.file_number /\ self.files_seen = U32Max
      [] self.kind \in {"Unlogged", "Logged"} -> update_overflows(self.inner, other.inner)
      [] self.kind = "Dual" ->
            \/ update_overflows(self.retention, other.retention)
            \/ update_overflows(self.log, other.log)

RECURSIVE retention_value(_)
retention_value(self) ==
    CASE self.kind = "Noop" -> 0
      [] self.kind = "LineCount" -> self.n
      [] self.kind = "LastFileSeen" -> self.n
      [] self.kind = "FileCount" -> self.files_seen
      [] self.kind \in {"Unlogged", "Logged"} -> retention_value(self.inner)
      [] self.kind = "Dual" -> retention_value(self.retention)

RECURSIVE count(_)
count(self) ==
    CASE self.kind \in {"Noop", "LineCount", "FileCount", "Logged"} -> retention_value(self)
      [] self.kind = "Unlogged" -> 0
      [] self.kind = "Dual" -> count(self.log)

\* The decimal digits of n, as bytes.
RECURSIVE decimal(_)
decimal(n) == IF n < 10 THEN <<48 + n>> ELSE decimal(n \div 10) \o <<48 + (n % 10)>>

\* format!("{:width$} ", n): n right-justified in `width` columns, then a space
format_count(n, width) ==
    LET d == decimal(n)
        pad == IF Len(d) < width THEN [i \in 1..(width - Len(d)) |-> 32] ELSE <<>>
    IN  pad \o d \o <<32>>

\* " overflow  "
overflow_token == <<32, 111, 118, 101, 114, 102, 108, 111, 119, 32, 32>>

LineCount_write_count(self, width) ==
    IF self.n = U32Max THEN overflow_token ELSE format_count(self.n, width)

FileCount_write_count(self, width) == format_count(self.files_seen, width)

Logged_write_count(self, width) ==
    IF count(self) = U32Max THEN overflow_token ELSE format_count(count(self), width)

\* The bytes write_count writes to the sink.
RECURSIVE write_count(_, _)
write_count(self, width) ==
    CASE self.kind \in {"Noop", "Unlogged"} -> <<>>
      [] self.kind = "LineCount" -> LineCount_write_count(self, width)
      [] self.kind = "FileCount" -> FileCount_write_count(self, width)
      [] self.kind = "Logged" -> Logged_write_count(self, width)
      [] self.kind = "Dual" -> write_count(self.log, width)

(***************************************************************************)
(* The ordered line set: a sequence of [key, item] entries in insertion    *)
(* order.  The operations that read lines return [entries, overflow]:      *)
(* the set afterwards, and whether some update_with overflowed.            *)
(***************************************************************************)
\* see_line that moves the entry of a line seen again to the end
see_line_moving(S, line, it, insert) ==
    LET here == {i \in DOMAIN S.entries : S.entries[i].key = line}
    IN  IF here # {}
        THEN LET i == CHOOSE j \in here : TRUE
                 v == S.entries[i].item
                 others == SelectSeq(S.entries, LAMBDA e : e.key # line)
             IN  [entries |-> Append(others, [key |-> line, item |-> update_with(v, it)]),
                  overflow |-> S.overflow \/ update_overflows(v, it)]
        ELSE IF insert
             THEN [S EXCEPT !.entries = Append(S.entries, [key |-> line, item |-> it])]
             ELSE S

\* One line seen with template `item`: an entry that holds the key is
\* updated in place; a missing key is appended when `insert` says so.
see_line(S, line, it, insert) ==
    LET here == {i \in DOMAIN S.entries : S.entries[i].key = line}
    IN  IF here # {}
        THEN LET i == CHOOSE j \in here : TRUE
                 v == S.entries[i].item
             IN  [entries |-> [S.entries EXCEPT ![i].item = update_with(v, it)],
                  overflow |-> S.overflow \/ update_overflows(v, it)]
        ELSE IF insert
             THEN [S EXCEPT !.entries = Append(S.entries, [key |-> line, item |-> it])]
             ELSE S

RECURSIVE see_lines(_, _, _, _)
see_lines(S, lines, it, insert) ==
    IF lines = <<>> THEN S
    ELSE see_lines(see_line(S, Head(lines), it, insert), Tail(lines), it, insert)

ZetSet_new(slice, it) ==
    see_lines([entries |-> <<>>, overflow |-> FALSE], insert_all_lines(slice), it, TRUE)

insert_or_update(entries, operand, it) ==
    see_lines([entries |-> entries, overflow |-> FALSE], for_byte_line(operand), it, TRUE)

update_if_present(entries, operand, it) ==
    see_lines([entries |-> entries, overflow |-> FALSE], for_byte_line(operand), it, FALSE)

\* retain(pred), with pred given as the set of retention values it keeps
retain(entries, keep) ==
    SelectSeq(entries, LAMBDA e : retention_value(e.item) \in keep)

\* the width of the count column
Width == 10

\* What output_to writes: per entry, in order, the count column and the key.
output_to(entries) ==
    [i \in DOMAIN entries |->
        [count |-> write_count(entries[i].item, Width), line |-> entries[i].key]]

(***************************************************************************)
(* The dispatcher: the kernel that runs, with its type parameter.          *)
(***************************************************************************)
Call(k, keep, T) == [kernel |-> k, keep |-> keep, T |-> T]

dispatch(Log, op) ==
    CASE op = "Union" -> Call("union", "-", Log)
      [] op = "Diff" -> Call("diff", "-", Log)
      [] op = "Intersect" -> Call("intersect", "-", Log)
      [] op = "Single" -> Call("count", "Single", DualT(LineCountT, Log))
      [] op = "Multiple" -> Call("count", "Multiple", DualT(LineCountT, Log))
      [] op = "SingleByFile" -> Call("count", "Single", DualT(FileCountT, Log))
      [] op = "MultipleByFile" -> Call("count", "Multiple", DualT(FileCountT, Log))

\* calculate's log = None arm with Single and Multiple given SingleByFile's and
\* MultipleByFile's FileCount
calculate_None_by_file(op) ==
    CASE op = "Union" -> Call("union", "-", UnloggedT(NoopT))
      [] op = "Diff" -> Call("diff", "-", UnloggedT(LastFileSeenT))
      [] op = "Intersect" -> Call("intersect", "-", UnloggedT(LastFileSeenT))
      [] op \in {"Single", "SingleByFile"} -> Call("count", "Single", UnloggedT(FileCountT))
      [] op \in {"Multiple", "MultipleByFile"} -> Call("count", "Multiple", UnloggedT(FileCountT))

calculate_None(op) ==
    CASE op = "Union" -> Call("union", "-", UnloggedT(NoopT))
      [] op = "Diff" -> Call("diff", "-", UnloggedT(LastFileSeenT))
      [] op = "Intersect" -> Call("intersect", "-", UnloggedT(LastFileSeenT))
      [] op = "Single" -> Call("count", "Single", UnloggedT(LineCountT))
      [] op = "Multiple" -> Call("count", "Multiple", UnloggedT(LineCountT))
      [] op = "SingleByFile" -> Call("count", "Single", UnloggedT(FileCountT))
      [] op = "MultipleByFile" -> Call("count", "Multiple", UnloggedT(FileCountT))

calculate_Lines(op) ==
    CASE op = "Single" -> Call("count", "Single", LineCountT)
      [] op = "Multiple" -> Call("count", "Multiple", LineCountT)
      [] OTHER -> dispatch(LineCountT, op)

\* calculate's log = Files arm with Single given SingleByFile's FileCount
calculate_Files_by_file(op) ==
    CASE op \in {"Single", "SingleByFile"} -> Call("count", "Single", FileCountT)
      [] op = "MultipleByFile" -> Call("count", "Multiple", FileCountT)
      [] OTHER -> dispatch(FileCountT, op)

calculate_Files(op) ==
    CASE op = "SingleByFile" -> Call("count", "Single", FileCountT)
      [] op = "MultipleByFile" -> Call("count", "Multiple", FileCountT)
      [] op = "Single" -> Call("count", "Single", LineCountT)
      [] OTHER -> dispatch(FileCountT, op)

calculate(op, log) ==
    CASE log = "None" -> calculate_None(op)
      [] log = "Lines" -> calculate_Lines(op)
      [] log = "Files" -> calculate_Files(op)

\* The type of the kernel's template item: diff and intersect pair a
\* LastFileSeen with their Log, every_line takes B as it is.
item_type(c) ==
    IF c.kernel \in {"diff", "intersect"} THEN DualT(LastFileSeenT, c.T) ELSE c.T


(***************************************************************************)
(* The kernels, as functions of the template item and the set's entries.   *)
(* A turn of a loop returns [ok, item, entries, overflow]: whether the     *)
(* turn returned no Err, the template and the set afterwards, and whether  *)
(* an update_with overflowed on the way.                                   *)
(***************************************************************************)
Turn(ok, it, entries, overflow) ==
    [ok |-> ok, item |-> it, entries |-> entries, overflow |-> overflow]

\* every_line_turn that calls next_file after the operand's lines
every_line_turn_late(it, entries, operand) ==
    LET nf == next_file(it)
        r == insert_or_update(entries, operand, it)
    IN  IF nf.ok THEN Turn(TRUE, nf.item, r.entries, r.overflow)
        ELSE Turn(FALSE, nf.item, entries, FALSE)

\* `item.next_file()?; set.insert_or_update(operand?, item)?;`
every_line_turn(it, entries, operand) ==
    LET nf == next_file(it)
        r == insert_or_update(entries, operand, nf.item)
    IN  IF nf.ok THEN Turn(TRUE, nf.item, r.entries, r.overflow)
        ELSE Turn(FALSE, nf.item, entries, FALSE)

\* `item.next_file()?; set.update_if_present(operand?, item)?;`
diff_turn(it, entries, operand) ==
    LET nf == next_file(it)
        r == update_if_present(entries, operand, nf.item)
    IN  IF nf.ok THEN Turn(TRUE, nf.item, r.entries, r.overflow)
        ELSE Turn(FALSE, nf.item, entries, FALSE)

\* intersect_turn with insert_or_update in the place of update_if_present
intersect_turn_inserting(it, entries, operand) ==
    LET nf == next_file(it)
        this_file == retention_value(nf.item)
        r == insert_or_update(entries, operand, nf.item)
    IN  IF nf.ok THEN Turn(TRUE, nf.item, retain(r.entries, {this_file}), r.overflow)
        ELSE Turn(FALSE, nf.item, entries, FALSE)

\* intersect_turn with this_file read before next_file has advanced the template
intersect_turn_stale(it, entries, operand) ==
    LET nf == next_file(it)
        this_file == retention_value(it)
        r == update_if_present(entries, operand, nf.item)
    IN  IF nf.ok THEN Turn(TRUE, nf.item, retain(r.entries, {this_file}), r.overflow)
        ELSE Turn(FALSE, nf.item, entries, FALSE)

\* `item.next_file()?; let this_file = item.retention_value();
\*  set.update_if_present(operand?, item)?; set.retain(|l| l == this_file);`
intersect_turn(it, entries, operand) ==
    LET nf == next_file(it)
        this_file == retention_value(nf.item)
        r == update_if_present(entries, operand, nf.item)
    IN  IF nf.ok THEN Turn(TRUE, nf.item, retain(r.entries, {this_file}), r.overflow)
        ELSE Turn(FALSE, nf.item, entries, FALSE)

\* union_set with the sweep of count(AndKeep::Single)
union_set_swept(entries) == retain(entries, {1})

\* The set each kernel hands to output_and_discard once the loop has ended.
union_set(entries) == entries

\* diff_set keeping the retention value 1 instead of first_file
diff_set_one(T, entries) == retain(entries, {1})

\* `set.retain(|file_number| file_number == first_file)`, with first_file the
\* retention value of the new template
diff_set(T, entries) ==
    LET first_file == retention_value(new(DualT(LastFileSeenT, T)))
    IN  retain(entries, {first_file})

intersect_set(entries) == entries

\* AndKeep with `>= 1` for Multiple
AndKeep_ge(keep) == IF keep = "Single" THEN {1} ELSE 1..U32Max

\* The retention values AndKeep keeps: `== 1`, `> 1`.
AndKeep(keep) == IF keep = "Single" THEN {1} ELSE 2..U32Max

\* count_set that leaves the sweep out
count_set_unswept(keep, entries) == entries

count_set(keep, entries) == retain(entries, AndKeep(keep))

(***************************************************************************)
(* The run of one call of `calculate`.                                     *)
(*   rest  the later operands taken from the iterator so far               *)
(*   item  the kernel's template item                                      *)
(*   set   the entries of the kernel's ZetSet                              *)
(*   out   what was written to the sink, one record per line written       *)
(*   pc    "loop" in the kernel's for loop, "done" returned Ok, "error"    *)
(*         returned next_file's Err, "operand_error" returned the Err of   *)
(*         an operand, "panic" panicked on an arithmetic overflow          *)
(***************************************************************************)
call == calculate(operation, log_type)

Init ==
    /\ operation \in OpName
    /\ log_type \in LogType
    /\ first_operand \in Buffers
    /\ rest = <<>>
    /\ item = new(item_type(calculate(operation, log_type)))
    /\ set = ZetSet_new(first_operand, item).entries
    /\ out = <<>>
    /\ pc = "loop"

\* after_turn that goes on with the loop after an Err
after_turn_ignoring(t) == IF t.overflow THEN {"loop", "panic"} ELSE {"loop"}

\* Where a turn of a loop leaves the run.  After an update that overflowed
\* `files_seen += 1` a build with overflow checks has panicked and one
\* without them goes on with the wrapped value.
after_turn(t) ==
    IF ~t.ok THEN {"error"} ELSE IF t.overflow THEN {"loop", "panic"} ELSE {"loop"}

\* One turn of every_line's loop, for union and count.
every_line(operand) ==
    /\ pc = "loop"
    /\ call.kernel \in {"union", "count"}
    /\ rest' = Append(rest, operand)
    /\ LET t == every_line_turn(item, set, operand)
       IN  item' = t.item /\ set' = t.entries /\ pc' \in after_turn(t)
    /\ UNCHANGED <<operation, log_type, first_operand, out>>

\* One turn of diff's loop.
diff_loop(operand) ==
    /\ pc = "loop"
    /\ call.kernel = "diff"
    /\ rest' = Append(rest, operand)
    /\ LET t == diff_turn(item, set, operand)
       IN  item' = t.item /\ set' = t.entries /\ pc' \in after_turn(t)
    /\ UNCHANGED <<operation, log_type, first_operand, out>>

\* One turn of intersect's loop.
intersect_loop(operand) ==
    /\ pc = "loop"
    /\ call.kernel = "intersect"
    /\ rest' = Append(rest, operand)
    /\ LET t == intersect_turn(item, set, operand)
       IN  item' = t.item /\ set' = t.entries /\ pc' \in after_turn(t)
    /\ UNCHANGED <<operation, log_type, first_operand, out>>

\* The iterator yields an Err: `item.next_file()?` comes first, then `operand?`
\* returns the operand's Err.
operand_err ==
    /\ pc = "loop"
    /\ LET nf == next_file(item)
       IN  item' = nf.item /\ pc' = IF nf.ok THEN "operand_error" ELSE "error"
    /\ UNCHANGED <<operation, log_type, first_operand, rest, set, out>>

\* The operand's for_byte_line returns Err when it has handed the first n of
\* its lines to the callback: the set has taken those, and the kernel returns
\* the Err before it sweeps or writes.
for_byte_line_err(operand, n) ==
    /\ pc = "loop"
    /\ rest' = Append(rest, operand)
    /\ LET nf == next_file(item)
           handed == SubSeq(for_byte_line(operand), 1, n)
           r == see_lines([entries |-> set, overflow |-> FALSE], handed, nf.item,
                          call.kernel \in {"union", "count"})
       IN  /\ item' = nf.item
           /\ set' = IF nf.ok THEN r.entries ELSE set
           /\ pc' \in IF ~nf.ok THEN {"error"}
                      ELSE IF r.overflow THEN {"operand_error", "panic"}
                      ELSE {"operand_error"}
    /\ UNCHANGED <<operation, log_type, first_operand, out>>

\* The iterator is exhausted: union writes the whole set.
union ==
    /\ pc = "loop"
    /\ call.kernel = "union"
    /\ set' = union_set(set)
    /\ out' = output_to(set')
    /\ pc' = "done"
    /\ UNCHANGED <<operation, log_type, first_operand, rest, item>>

\* The iterator is exhausted: diff sweeps the set and writes it.
diff ==
    /\ pc = "loop"
    /\ call.kernel = "diff"
    /\ set' = diff_set(call.T, set)
    /\ out' = output_to(set')
    /\ pc' = "done"
    /\ UNCHANGED <<operation, log_type, first_operand, rest, item>>

\* The iterator is exhausted: intersect writes what its sweeps left.
intersect ==
    /\ pc = "loop"
    /\ call.kernel = "intersect"
    /\ set' = intersect_set(set)
    /\ out' = output_to(set')
    /\ pc' = "done"
    /\ UNCHANGED <<operation, log_type, first_operand, rest, item>>

\* every_line has returned the set: count sweeps it and writes it.
count_retain ==
    /\ pc = "loop"
    /\ call.kernel = "count"
    /\ set' = count_set(call.keep, set)
    /\ out' = output_to(set')
    /\ pc' = "done"
    /\ UNCHANGED <<operation, log_type, first_operand, rest, item>>

\* The inputs explored: runs of a few arbitrary operands within a budget
\* of bytes, and long runs of the operands of ManyBuffers.
RECURSIVE total_len(_)
total_len(buffers) ==
    IF buffers = <<>> THEN 0 ELSE Len(Head(buffers)) + total_len(Tail(buffers))

BuffersOfLen == [n \in 0..MaxBytes |-> [1..n -> Bytes]]

\* the operands whose for_byte_line may fail
FailingBuffers == {<<120, NL>>, <<NL, 120>>}

\* the operands the next turn may take
Takeable ==
    LET left == MaxBytes - (Len(first_operand) + total_len(rest))
        few == IF Len(rest) < MaxRest THEN UNION {BuffersOfLen[n] : n \in 0..left} ELSE {}
        many == IF /\ Len(rest) < MaxManyRest
                   /\ first_operand \in ManyBuffers
                   /\ \A k \in DOMAIN rest : rest[k] \in ManyBuffers
                THEN ManyBuffers ELSE {}
    IN  few \cup many

Next ==
    \/ call.kernel \in {"union", "count"} /\ \E operand \in Takeable : every_line(operand)
    \/ call.kernel = "diff" /\ \E operand \in Takeable : diff_loop(operand)
    \/ call.kernel = "intersect" /\ \E operand \in Takeable : intersect_loop(operand)
    \/ operand_err
    \/ \E operand \in Takeable \cap FailingBuffers :
          \E n \in 0..Len(for_byte_line(operand)) : for_byte_line_err(operand, n)
    \/ union
    \/ diff
    \/ intersect
    \/ count_retain

Spec == Init /\ [][Next]_vars

(***************************************************************************)
(* `calculate` as a function of its arguments, for a call that does not    *)
(* panic: [ok |-> it returned Ok, out |-> what it wrote].                  *)
(***************************************************************************)
kernel_turn(c, it, entries, operand) ==
    CASE c.kernel \in {"union", "count"} -> every_line_turn(it, entries, operand)
      [] c.kernel = "diff" -> diff_turn(it, entries, operand)
      [] c.kernel = "intersect" -> intersect_turn(it, entries, operand)

kernel_set(c, entries) ==
    CASE c.kernel = "union" -> union_set(entries)
      [] c.kernel = "diff" -> diff_set(c.T, entries)
      [] c.kernel = "intersect" -> intersect_set(entries)
      [] c.kernel = "count" -> count_set(c.keep, entries)

RECURSIVE kernel_turns(_, _, _, _)
kernel_turns(c, it, entries, operands) ==
    IF operands = <<>> THEN Turn(TRUE, it, entries, FALSE)
    ELSE LET t == kernel_turn(c, it, entries, Head(operands))
         IN  IF t.ok THEN kernel_turns(c, t.item, t.entries, Tail(operands)) ELSE t

\* the kernel and type parameter c run on the operands
called(c, first, later) ==
    LET it == new(item_type(c))
        t == kernel_turns(c, it, ZetSet_new(first, it).entries, later)
    IN  IF t.ok THEN [ok |-> TRUE, out |-> output_to(kernel_set(c, t.entries))]
        ELSE [ok |-> FALSE, out |-> <<>>]

calculated(op, log, first, later) == called(calculate(op, log), first, later)

(***************************************************************************)
(* What the properties speak of: the input as lines, and the lines written.*)
(***************************************************************************)
\* the operands of the run so far, the first operand first
Operands == <<first_operand>> \o rest

\* the lines of operand k (1 is the first operand)
LinesOf(k) == insert_all_lines(Operands[k])

RECURSIVE lines_of_all(_)
lines_of_all(buffers) ==
    IF buffers = <<>> THEN <<>>
    ELSE insert_all_lines(Head(buffers)) \o lines_of_all(Tail(buffers))

\* the lines of the stream "first operand, then the later operands in order"
AllLines == lines_of_all(Operands)

InputLines == Range(AllLines)

\* how often line l occurs in the whole input
Occurrences(l) == Cardinality({i \in DOMAIN AllLines : AllLines[i] = l})

\* in how many operands line l occurs
FilesWith(l) == Cardinality({k \in DOMAIN Operands : l \in Range(LinesOf(k))})

\* s without the later occurrences of its elements
RECURSIVE dedup(_)
dedup(s) ==
    IF s = <<>> THEN <<>>
    ELSE LET front == dedup(SubSeq(s, 1, Len(s) - 1))
             last == s[Len(s)]
         IN  IF last \in Range(front) THEN front ELSE Append(front, last)

\* the distinct input lines, by first occurrence
FirstOccurrence == dedup(AllLines)

\* the lines written, in the order written
lines_written(o) == [i \in DOMAIN o |-> o[i].line]

Written == lines_written(out)

WrittenSet == Range(Written)

Done(op) == pc = "done" /\ operation = op

(***************************************************************************)
(* Properties.                                                             *)
(***************************************************************************)

\* C1: when calculate(Union, log = None) has returned, the lines it wrote are
\* exactly the lines that occur in some operand: none is missing, none added.
C1_UnionWritesEveryInputLine ==
    (Done("Union") /\ log_type = "None") => WrittenSet = InputLines

\* C1 witness: a Union without log over two later operands that wrote a line
\* the first operand does not hold and a line seen in two operands.
C1_Witness ==
    /\ Done("Union") /\ log_type = "None" /\ Len(rest) = 2
    /\ \E l \in WrittenSet : l \notin Range(LinesOf(1))
    /\ \E l \in WrittenSet : FilesWith(l) >= 2

\* C2: when calculate(Intersect) has returned, the lines it wrote are exactly
\* the lines of the first operand that occur in every later operand.
C2_IntersectWritesLinesOfEveryOperand ==
    Done("Intersect") =>
        WrittenSet = {l \in Range(LinesOf(1)) :
                        \A k \in DOMAIN Operands : l \in Range(LinesOf(k))}

\* C2 witness: an Intersect over two later operands that wrote a line and
\* dropped a line of the first operand that only the last operand holds too.
C2_Witness ==
    /\ Done("Intersect") /\ Len(rest) = 2 /\ WrittenSet # {}
    /\ \E l \in Range(LinesOf(1)) :
          l \notin Range(LinesOf(2)) /\ l \in Range(LinesOf(3)) /\ l \notin WrittenSet

\* C3: when calculate(Diff) has returned, the lines it wrote are exactly the
\* lines of the first operand that occur in no later operand.
C3_DiffWritesLinesOfFirstOperandOnly ==
    Done("Diff") =>
        WrittenSet = {l \in Range(LinesOf(1)) :
                        \A k \in DOMAIN Operands : k > 1 => l \notin Range(LinesOf(k))}

\* C3 witness: a Diff over two later operands that wrote a line and dropped a
\* line of the first operand found in the first later operand only.
C3_Witness ==
    /\ Done("Diff") /\ Len(rest) = 2 /\ WrittenSet # {}
    /\ \E l \in Range(LinesOf(1)) :
          l \in Range(LinesOf(2)) /\ l \notin Range(LinesOf(3)) /\ l \notin WrittenSet

\* C4: when calculate(Single) has returned it wrote exactly the lines that occur
\* once in the whole input, and calculate(Multiple) exactly those that occur
\* more than once (repeats inside one operand counted); when both return Ok on
\* the same input the two outputs are disjoint and together hold every input
\* line.
C4_SingleAndMultipleSplitByOccurrences ==
    /\ Done("Single") => WrittenSet = {l \in InputLines : Occurrences(l) = 1}
    /\ Done("Multiple") => WrittenSet = {l \in InputLines : Occurrences(l) > 1}
    /\ Done("Single") =>
          LET m == calculated("Multiple", log_type, first_operand, rest)
              multiple == Range(lines_written(m.out))
          IN  m.ok => WrittenSet \cap multiple = {} /\ WrittenSet \cup multiple = InputLines

\* C4 witness: a Single that wrote a line and left out both a line repeated
\* inside one operand only and a line found once in each of two operands.
C4_Witness ==
    /\ Done("Single") /\ WrittenSet # {}
    /\ \E l \in InputLines : Occurrences(l) = 2 /\ FilesWith(l) = 1 /\ l \notin WrittenSet
    /\ \E l \in InputLines : Occurrences(l) = 2 /\ FilesWith(l) = 2 /\ l \notin WrittenSet

\* C5: when calculate(SingleByFile) has returned it wrote exactly the lines that
\* occur in exactly one operand, and calculate(MultipleByFile) exactly those that
\* occur in more than one operand, repeats inside an operand counting once.
C5_ByFileSplitByOperands ==
    /\ Done("SingleByFile") => WrittenSet = {l \in InputLines : FilesWith(l) = 1}
    /\ Done("MultipleByFile") => WrittenSet = {l \in InputLines : FilesWith(l) > 1}

\* whether s is t with some elements left out
RECURSIVE IsSubsequence(_, _)
IsSubsequence(s, t) ==
    IF s = <<>> THEN TRUE
    ELSE IF t = <<>> THEN FALSE
    ELSE IF Head(s) = Head(t) THEN IsSubsequence(Tail(s), Tail(t))
    ELSE IsSubsequence(s, Tail(t))

\* C6: whatever the operation, the lines written are the distinct input lines in
\* order of first occurrence with some left out, and none is written twice.
C6_WrittenInFirstOccurrenceOrder ==
    pc = "done" =>
        /\ IsSubsequence(Written, FirstOccurrence)
        /\ \A i, j \in DOMAIN Written : Written[i] = Written[j] => i = j

\* C6 witness: a run over later operands that wrote two lines or more and left
\* out the line that came first in the input, which was seen again.
C6_Witness ==
    /\ pc = "done" /\ rest # <<>> /\ Len(Written) >= 2
    /\ FirstOccurrence[1] \notin WrittenSet
    /\ Occurrences(FirstOccurrence[1]) >= 2

\* The number in a count column: the column without its spaces, read as a
\* decimal number; -1 when that is not a number.
parse_count(column) ==
    LET digits == SelectSeq(column, LAMBDA b : b # 32)
        RECURSIVE value(_)
        value(d) == IF d = <<>> THEN 0 ELSE 10 * value(SubSeq(d, 1, Len(d) - 1)) + (d[Len(d)] - 48)
    IN  IF digits # <<>> /\ \A i \in DOMAIN digits : digits[i] \in 48..57
        THEN value(digits) ELSE -1

\* C7: with log = Lines, whatever the operation, the count written in front of a
\* line is the number of its occurrences in the whole input, as long as that
\* number is below u32::MAX.
C7_LinesLogCountsOccurrences ==
    (pc = "done" /\ log_type = "Lines") =>
        \A i \in DOMAIN out :
            Occurrences(out[i].line) < U32Max =>
                parse_count(out[i].count) = Occurrences(out[i].line)

\* C7 witness: a Diff or Intersect with log = Lines that wrote a line seen twice
\* in the first operand and, for Intersect, again in a later operand.
C7_Witness ==
    /\ pc = "done" /\ log_type = "Lines" /\ rest # <<>>
    /\ \/ /\ operation = "Intersect"
          /\ \E i \in DOMAIN out : Occurrences(out[i].line) >= 3 /\ FilesWith(out[i].line) = 2
       \/ /\ operation = "Diff"
          /\ \E i \in DOMAIN out : Occurrences(out[i].line) = 2

\* C8: with log = Files, whatever the operation, the count written in front of a
\* line is the number of operands the line occurs in.
C8_FilesLogCountsOperands ==
    (pc = "done" /\ log_type = "Files") =>
        \A i \in DOMAIN out : parse_count(out[i].count) = FilesWith(out[i].line)

\* the elements of s that satisfy keep, in order
only(s, keep(_)) == SelectSeq(s, keep)

\* C9: with no later operand, Union, Intersect, Diff and SingleByFile write the
\* distinct lines of the operand in order of first occurrence, Single those
\* that occur once, Multiple those that occur twice or more, MultipleByFile
\* nothing.
C9_SingleOperand ==
    (pc = "done" /\ rest = <<>>) =>
        LET distinct == dedup(insert_all_lines(first_operand))
        IN  CASE operation \in {"Union", "Intersect", "Diff", "SingleByFile"} ->
                    Written = distinct
              [] operation = "Single" ->
                    Written = only(distinct, LAMBDA l : Occurrences(l) = 1)
              [] operation = "Multiple" ->
                    Written = only(distinct, LAMBDA l : Occurrences(l) >= 2)
              [] operation = "MultipleByFile" -> Written = <<>>

\* C9 witness: a Single over one operand that holds a repeated line before two
\* lines that occur once.
C9_Witness ==
    /\ Done("Single") /\ rest = <<>> /\ Len(Written) = 2
    /\ FirstOccurrence[1] \notin WrittenSet

\* the bytes of the buffers, one buffer after the other
RECURSIVE concatenation(_)
concatenation(buffers) ==
    IF buffers = <<>> THEN <<>> ELSE Head(buffers) \o concatenation(Tail(buffers))

\* the bytes written: per line written, its count column and the line
RECURSIVE bytes_written(_)
bytes_written(o) ==
    IF o = <<>> THEN <<>> ELSE Head(o).count \o Head(o).line \o bytes_written(Tail(o))

\* what calculate writes when the later bytes come as one operand
undivided == calculated(operation, log_type, first_operand, <<concatenation(rest)>>)

\* whether every later operand but the last is empty or ends with a newline
DividedAtLineEnds ==
    \A k \in 1..(Len(rest) - 1) : rest[k] = <<>> \/ rest[k][Len(rest[k])] = NL

\* C10 as stated: the bytes written depend on the operation, the log mode, the
\* first operand and the concatenation of the later operands only, however the
\* later bytes are divided into operands.
C10_OutputDependsOnConcatenationOnly ==
    pc = "done" => bytes_written(out) = bytes_written(undivided.out)

\* C10 amended: the bytes written are those the operation, the log mode, the
\* first operand and the list of later operands determine; and for Diff and
\* Single with any log mode and for Union and Multiple with log None or Lines
\* they do not depend on how the later bytes are divided into operands, as
\* long as the cuts fall at line ends.
C10_OutputDependsOnOperandList ==
    pc = "done" =>
        /\ out = calculated(operation, log_type, first_operand, rest).out
        /\ ( /\ \/ operation \in {"Diff", "Single"}
                \/ operation \in {"Union", "Multiple"} /\ log_type \in {"None", "Lines"}
             /\ DividedAtLineEnds )
           => bytes_written(out) = bytes_written(undivided.out)

\* C10 witness: a Multiple with log = Lines that wrote a line found in each of
\* two later operands, the first of which ends with a newline.
C10_Witness ==
    /\ Done("Multiple") /\ log_type = "Lines" /\ Len(rest) = 2
    /\ rest[1] # <<>> /\ rest[2] # <<>> /\ DividedAtLineEnds
    /\ \E l \in WrittenSet : l \in Range(LinesOf(2)) /\ l \in Range(LinesOf(3))

\* the later operands without the last one
Front(s) == SubSeq(s, 1, Len(s) - 1)

\* C11: when Intersect or Diff has returned over the later operands L followed
\* by Y, every line it wrote is a line the same operation writes over L alone.
C11_AnotherOperandWritesNoMore ==
    (pc = "done" /\ operation \in {"Intersect", "Diff"} /\ rest # <<>>) =>
        WrittenSet \subseteq
            Range(lines_written(calculated(operation, log_type, first_operand, Front(rest)).out))

\* C11 witness: an Intersect or a Diff over two later operands that wrote a
\* line and, because of the last operand, left out a line it writes without it.
C11_Witness ==
    /\ pc = "done" /\ operation \in {"Intersect", "Diff"} /\ Len(rest) = 2
    /\ WrittenSet # {}
    /\ \E l \in Range(lines_written(calculated(operation, log_type, first_operand,
                                               Front(rest)).out)) : l \notin WrittenSet


(***************************************************************************)
(* The bookkeeping items on their own, driven the way ZetSet and the       *)
(* kernels drive them (and the tests of test_bookkeeping do): `item` is a  *)
(* template, `set` holds one entry made from the new template, and a step  *)
(* advances the template to the next file, updates the entry's item with   *)
(* the template, or writes the entry.  pc names the last step: "new",      *)
(* "next_file", "error" (next_file returned Err), "update_with", "panic"   *)
(* (update_with overflowed in a build with overflow checks), "write_count".*)
(***************************************************************************)
\* the shapes the tests name, the wrappers, and the shapes calculate uses
Shapes ==
    LET base == {NoopT, LineCountT, LastFileSeenT, FileCountT}
        logs == {NoopT, LineCountT, FileCountT}
    IN  base
        \cup {DualT(R, B) : R \in base, B \in logs}
        \cup {UnloggedT(R) : R \in base}
        \cup {LoggedT(R) : R \in base}
        \cup {item_type(calculate(op, log)) : op \in OpName, log \in LogType}

\* Testable::file_number: the empty set for None, {n} for Some(n)
RECURSIVE file_number(_)
file_number(self) ==
    CASE self.kind \in {"Noop", "LineCount"} -> {}
      [] self.kind = "LastFileSeen" -> {self.n}
      [] self.kind = "FileCount" -> {self.file_number}
      [] self.kind \in {"Unlogged", "Logged"} -> file_number(self.inner)
      [] self.kind = "Dual" ->
            IF file_number(self.retention) # {} THEN file_number(self.retention)
            ELSE file_number(self.log)

\* whether a shape carries a file number: LastFileSeen, FileCount and whatever
\* holds one of them
RECURSIVE carries_file_number(_)
carries_file_number(self) ==
    CASE self.kind \in {"LastFileSeen", "FileCount"} -> TRUE
      [] self.kind \in {"Noop", "LineCount"} -> FALSE
      [] self.kind \in {"Unlogged", "Logged"} -> carries_file_number(self.inner)
      [] self.kind = "Dual" ->
            carries_file_number(self.retention) \/ carries_file_number(self.log)

\* the line count a shape logs (what Testable::set_line_count sets): the empty
\* set when the shape logs none
RECURSIVE line_count(_)
line_count(self) ==
    CASE self.kind = "LineCount" -> {self.n}
      [] self.kind = "Dual" -> line_count(self.log)
      [] OTHER -> {}

\* the line of the one entry
test_line == <<120, NL>>

BookkeepingInit ==
    /\ operation = "Union"
    /\ log_type = "None"
    /\ first_operand = test_line
    /\ rest = <<>>
    /\ \E T \in Shapes : item = new(T)
    /\ set = <<[key |-> test_line, item |-> item]>>
    /\ out = <<>>
    /\ pc = "new"

\* `item.next_file()`
item_next_file ==
    /\ pc # "panic"
    /\ LET nf == next_file(item)
       IN  item' = nf.item /\ pc' = IF nf.ok THEN "next_file" ELSE "error"
    /\ UNCHANGED <<operation, log_type, first_operand, rest, set, out>>

\* `v.update_with(item)` on the entry's item v
item_update_with ==
    /\ pc # "panic"
    /\ set' = [set EXCEPT ![1].item = update_with(@, item)]
    /\ pc' \in IF update_overflows(set[1].item, item) THEN {"update_with", "panic"}
               ELSE {"update_with"}
    /\ UNCHANGED <<operation, log_type, first_operand, rest, item, out>>

\* the entry written: `write_count(width, out)`, then the line; for the
\* shapes that implement Bookkeeping, which a bare LastFileSeen does not
item_write_count ==
    /\ pc # "panic"
    /\ item.kind # "LastFileSeen"
    /\ out' = output_to(set)
    /\ pc' = "write_count"
    /\ UNCHANGED <<operation, log_type, first_operand, rest, item, set>>

BookkeepingNext ==
    \/ item_next_file
    \/ item_update_with
    \/ item_write_count

Bookkeeping == BookkeepingInit /\ [][BookkeepingNext]_vars

\* C12: a new item of a shape with a file number has file number 0; a
\* next_file that returns Ok has raised the file number by exactly 1 from a
\* number below u32::MAX; one that returns Err found the file number at
\* u32::MAX and left the item as it was; for a shape without a file number
\* next_file returns Ok and changes nothing.
C12_NextFileCountsFilesWithoutWrapping ==
    [][ /\ pc = "new" => file_number(item) = IF carries_file_number(item) THEN {0} ELSE {}
        /\ ~carries_file_number(item) => pc' # "error"
        /\ pc' = "next_file" =>
              IF ~carries_file_number(item) THEN item' = item
              ELSE \E n \in 0..(U32Max - 1) :
                      file_number(item) = {n} /\ file_number(item') = {n + 1}
        /\ pc' = "error" => file_number(item) = {U32Max} /\ item' = item
      ]_vars

\* C12 witness: a Dual with a file number in each half that next_file has
\* refused to advance past u32::MAX.
C12_Witness ==
    /\ pc = "error" /\ item.kind = "Dual"
    /\ file_number(item.retention) = {U32Max} /\ file_number(item.log) = {U32Max}


\* a count column without its spaces
trimmed(column) == SelectSeq(column, LAMBDA b : b # 32)

\* "overflow"
overflow_word == <<111, 118, 101, 114, 102, 108, 111, 119>>

\* C13: for a shape that logs a line count (LineCount, a Dual whose log half is
\* LineCount), update_with adds 1 to a count below u32::MAX and leaves a count
\* of u32::MAX as it is, and write_count writes the count in decimal when it
\* is below u32::MAX and the word overflow when it is u32::MAX.
C13_LineCountSaturatesAndLogsOverflow ==
    [][ \A n \in line_count(set[1].item) :
          /\ pc' = "update_with" =>
                line_count(set'[1].item) = {IF n < U32Max THEN n + 1 ELSE U32Max}
          /\ pc' = "write_count" =>
                IF n < U32Max
                THEN /\ parse_count(out'[1].count) = n
                     /\ trimmed(out'[1].count) = decimal(n)
                ELSE trimmed(out'[1].count) = overflow_word
      ]_vars

\* C13 witness: a Dual whose log half is a LineCount that has reached u32::MAX,
\* updated once more and then written.
C13_Witness ==
    /\ pc = "write_count" /\ set[1].item.kind = "Dual"
    /\ line_count(set[1].item) = {U32Max}
    /\ trimmed(out[1].count) = overflow_word


\* C14: a call whose template item carries a file number (Diff, Intersect,
\* SingleByFile, MultipleByFile, and what log = Files gives a FileCount) does
\* not return Ok when it is given more than u32::MAX operands, the first
\* operand counted.
C14_NoMoreThanU32MaxOperands ==
    (pc = "done" /\ carries_file_number(item)) => Len(Operands) <= U32Max


\* C15 as stated: with no later operand Diff writes the distinct lines of the
\* first operand and, with log = Lines or log = Files, the count 1 in front of
\* each.
C15_DiffAloneCountsOne ==
    (Done("Diff") /\ rest = <<>>) =>
        /\ Written = dedup(insert_all_lines(first_operand))
        /\ log_type \in {"Lines", "Files"} =>
              \A i \in DOMAIN out : parse_count(out[i].count) = 1

\* C15 amended: with no later operand Diff writes the distinct lines of the
\* first operand; with log = Files the count in front of each is 1, and with
\* log = Lines it is the number of times the line occurs in the first operand
\* (below u32::MAX), which is 1 only for a line that is not repeated.
C15_DiffAloneCountsFirstOperand ==
    (Done("Diff") /\ rest = <<>>) =>
        /\ Written = dedup(insert_all_lines(first_operand))
        /\ log_type = "Files" => \A i \in DOMAIN out : parse_count(out[i].count) = 1
        /\ log_type = "Lines" =>
              \A i \in DOMAIN out :
                 LET times == Cardinality({j \in DOMAIN LinesOf(1) : LinesOf(1)[j] = out[i].line})
                 IN  times < U32Max => parse_count(out[i].count) = times

\* C15 witness: a Diff of one operand with log = Lines that wrote a line found
\* twice in the operand with the count 2 and another line with the count 1.
C15_Witness ==
    /\ Done("Diff") /\ rest = <<>> /\ log_type = "Lines"
    /\ \E i, j \in DOMAIN out :
          parse_count(out[i].count) = 2 /\ parse_count(out[j].count) = 1


\* C16: every step of a run starts inside the kernel's loop, so a call that
\* has returned an Err stays returned; a turn whose next_file fails returns
\* that Err; and the sink is written by the one step that returns Ok, after
\* the last operand: when calculate returns an Err (next_file's, an Err
\* operand's, or that of an operand's for_byte_line) nothing has been written.
C16_NothingWrittenOnError ==
    [][ /\ pc = "loop"
        /\ (pc' # "done" /\ ~next_file(item).ok) => pc' = "error"
        /\ pc' # "done" => out' = <<>>
        /\ out' # out => pc' = "done"
      ]_vars

\* C16 witness: calculate has returned the Err of a later operand whose
\* for_byte_line failed after the set had taken a new line from it, and the
\* sink is empty.
C16_Witness ==
    /\ pc = "operand_error" /\ rest # <<>> /\ out = <<>>
    /\ \E i \in DOMAIN set : set[i].key \notin Range(LinesOf(1))


\* C17: for every operand, the lines it is split into, one after the other, are
\* the operand's bytes; no line is empty; a line holds no newline before its
\* last byte; every line but the last ends with a newline, and the last one
\* does unless bytes follow the operand's last newline, which then are the
\* last line; an empty operand has no lines.
C17_LinesAreTheBufferCutAfterNewlines ==
    \A k \in DOMAIN Operands :
        LET text == Operands[k]
            lines == insert_all_lines(text)
        IN  /\ concatenation(lines) = text
            /\ \A i \in DOMAIN lines :
                  /\ lines[i] # <<>>
                  /\ \A j \in 1..(Len(lines[i]) - 1) : lines[i][j] # NL
                  /\ i < Len(lines) => lines[i][Len(lines[i])] = NL
            /\ text = <<>> => lines = <<>>
            /\ text # <<>> =>
                  (lines[Len(lines)][Len(lines[Len(lines)])] = NL) = (text[Len(text)] = NL)

\* C17 witness: a first operand split into three lines or more, one of them the
\* bare newline and the last one without a newline.
C17_Witness ==
    /\ Len(LinesOf(1)) >= 3
    /\ <<NL>> \in Range(LinesOf(1))
    /\ first_operand[Len(first_operand)] # NL
    /\ \E i \in DOMAIN set : set[i].key = LinesOf(1)[Len(LinesOf(1))]


\* the operand (0 is the first) that is the last to hold line l
LastFileWith(l) ==
    LET with == {k \in DOMAIN Operands : l \in Range(LinesOf(k))}
    IN  (CHOOSE k \in with : \A j \in with : j <= k) - 1

\* C18: in every kernel, between two operands and at the end, a template that
\* carries a file number has the number of later operands taken so far as its
\* file number: next_file was called once per later operand and not for the
\* first; and every entry of the set carries the number of the last operand
\* that holds its line: the lines of operand k were seen with a template at
\* file number k, next_file having come before them and after the lines of
\* operand k - 1.
C18_NextFileOncePerLaterOperand ==
    (pc \in {"loop", "done"} /\ carries_file_number(item)) =>
        /\ file_number(item) = {Len(rest)}
        /\ \A i \in DOMAIN set : file_number(set[i].item) = {LastFileWith(set[i].key)}

\* C18 witness: after two later operands the set holds a line last seen in
\* the first operand, one last seen in the first later operand and one last
\* seen in the second.
C18_Witness ==
    /\ pc = "loop" /\ Len(rest) = 2 /\ file_number(item) = {2}
    /\ \A n \in 0..2 : \E i \in DOMAIN set : file_number(set[i].item) = {n}


Collapsed ==
    \/ log_type = "Lines" /\ operation \in {"Single", "Multiple"}
    \/ log_type = "Files" /\ operation \in {"SingleByFile", "MultipleByFile", "Single"}

\* what dispatch's Dual would have written in the place of the run's item
with_Dual ==
    called(dispatch(IF log_type = "Lines" THEN LineCountT ELSE FileCountT, operation),
           first_operand, rest)

\* C20 as stated: for every input, a call that runs with the single item
\* writes what it would write with dispatch's Dual.
C20_CollapsedWritesAsDual ==
    (pc = "done" /\ Collapsed) => bytes_written(out) = bytes_written(with_Dual.out)

\* C20 amended: a call that runs with the single item writes what it would
\* write with dispatch's Dual whenever the call with the Dual returns Ok, which
\* it does but for Single with log = Files over more than u32::MAX later
\* operands: there the Dual's FileCount fails next_file, and the LineCount run
\* goes on and writes.
C20_CollapsedWritesAsDualThatReturnsOk ==
    (pc = "done" /\ Collapsed) =>
        /\ with_Dual.ok => out = with_Dual.out
        /\ ~with_Dual.ok =>
              operation = "Single" /\ log_type = "Files" /\ Len(rest) > U32Max

\* C20 witness: a Single with log = Files over two later operands that wrote a
\* line with its count and left out a line found twice in one operand.
C20_Witness ==
    /\ Done("Single") /\ log_type = "Files" /\ Len(rest) = 2
    /\ WrittenSet # {} /\ with_Dual.ok
    /\ \E l \in InputLines : Occurrences(l) = 2 /\ FilesWith(l) = 1 /\ l \notin WrittenSet


\* whether every FileCount inside a2, which is a after a.update_with(b), has
\* one more in files_seen than in a where the file numbers of a and b
\* differed, and the same where they were equal
RECURSIVE files_seen_follows(_, _, _)
files_seen_follows(a, a2, b) ==
    CASE a.kind = "FileCount" ->
            a2.files_seen = IF b.file_number # a.file_number THEN a.files_seen + 1
                            ELSE a.files_seen
      [] a.kind \in {"Unlogged", "Logged"} -> files_seen_follows(a.inner, a2.inner, b.inner)
      [] a.kind = "Dual" ->
            /\ files_seen_follows(a.retention, a2.retention, b.retention)
            /\ files_seen_follows(a.log, a2.log, b.log)
      [] OTHER -> TRUE

\* C21: for every shape, v.update_with(item) returns with the file number of v
\* equal to that of item (none before and none after for a shape without a
\* file number), and with every FileCount's files_seen raised by exactly 1
\* when the two file numbers differed and unchanged when they were equal.
C21_UpdateWithTakesFileNumberAndCountsFile ==
    [][ pc' \in {"update_with", "panic"} =>
          /\ pc' = "update_with"
          /\ file_number(set'[1].item) = file_number(item)
          /\ files_seen_follows(set[1].item, set'[1].item, item)
      ]_vars


\* whether every FileCount inside the item holds a files_seen that counted
\* without overflow: at least 1, and at most one more than its file number
RECURSIVE files_seen_in_range(_)
files_seen_in_range(self) ==
    CASE self.kind = "FileCount" ->
            1 <= self.files_seen /\ self.files_seen <= self.file_number + 1
      [] self.kind \in {"Unlogged", "Logged"} -> files_seen_in_range(self.inner)
      [] self.kind = "Dual" ->
            files_seen_in_range(self.retention) /\ files_seen_in_range(self.log)
      [] OTHER -> TRUE

\* C22: as long as every next_file has returned Ok, no `files_seen += 1` has
\* overflowed: the run has not panicked, and every FileCount in the set holds
\* a files_seen between 1 and its file number plus 1, not a wrapped one.
C22_FilesSeenNeverOverflows ==
    /\ pc # "panic"
    /\ pc \in {"loop", "done"} => \A i \in DOMAIN set : files_seen_in_range(set[i].item)

====
